---- MODULE Spec2Model ----
(***************************************************************************)
(* Model of SkinnyJS jquery.postMessage.js: the window-relationship        *)
(* resolver (transverseLevel, serializeWindowReference), the sender        *)
(* ($.postMessage) with its three transports, and the receiver             *)
(* ($.receiveMessage, window.__receiveMessageHook).                        *)
(*                                                                         *)
(* JavaScript strings are modelled as sequences of one-character strings,  *)
(* so that concatenation, split and percent-coding are computed and not    *)
(* assumed.                                                                *)
(***************************************************************************)
EXTENDS Integers, Sequences, FiniteSets, TLC

\* ------------------------------------------------------------------ bounds

\* Number of windows of a window graph.
MaxWindows == 3

\* Depth of the JavaScript call stack: a call nested deeper raises RangeError.
\* Any value above the number of windows makes the overflow exact: a chain of
\* more nested transverseLevel calls than there are windows visits one window
\* twice with the same (non-numeric) level, and so never ends.
MaxStack == 6

\* 'we have already transversed deep enough': if (level >= 4)
MaxDepth == 4

\* ------------------------------------------------------------ window graph

Null == 0

Windows == 1 .. MaxWindows

VARIABLES
    frames,     \* frames[w]: the child frames of w, in index order (w.frames)
    parent,     \* parent[w]: w.parent (a top-level window is its own parent)
    opener,     \* opener[w]: w.opener, or Null
    resolved,   \* the last call of serializeWindowReference and its outcome
    listeners,  \* the entries registered with $.receiveMessage, in order
    received,   \* the last message event dispatched on the page, and its effect
    window,     \* the window the page that sends runs in
    browserSupportsPostMessage,     \* !!window.postMessage, read at load
    cacheBuster,    \* the counter appended to the proxy URL
    iframes,    \* the proxy frames in the document: id -> the message sent
    loaded,     \* the proxy frames whose load event has fired
    last        \* the last call of $.postMessage and its effect

\* The children of w under the parent map p, in ascending order.
ChildSeq(p, w) ==
    LET S == {c \in DOMAIN p : p[c] = w /\ c # w}
    IN  CHOOSE s \in [1 .. Cardinality(S) -> S] :
            \A i, j \in 1 .. Cardinality(S) : i < j => s[i] < s[j]

\* Parent maps of the forests over Windows (a window embeds only windows
\* created after it, so the map has no cycle but the top-level self-loop).
ParentMaps == {p \in [Windows -> Windows] : \A w \in Windows : p[w] <= w}

OpenerMaps == [Windows -> Windows \cup {Null}]

\* ------------------------------------------------------------------ strings

Digits == <<"0", "1", "2", "3", "4", "5", "6", "7", "8", "9">>

\* The JavaScript string of a frame index (a for-in key, or i in 'f,' + i).
IndexStr(i) == <<Digits[i + 1]>>

\* s.split(sep) for a one-character separator.
RECURSIVE Split(_, _)
Split(s, sep) ==
    IF \A i \in 1 .. Len(s) : s[i] # sep
    THEN <<s>>
    ELSE LET k == CHOOSE i \in 1 .. Len(s) :
                      s[i] = sep /\ \A j \in 1 .. i - 1 : s[j] # sep
         IN  <<SubSeq(s, 1, k - 1)>> \o Split(SubSeq(s, k + 1, Len(s)), sep)

\* ------------------------------------------------------------- JS numbers

\* The value of the parameter 'level': undefined when the argument is not
\* passed, NaN after undefined + 1, a number otherwise.
Undefined == [tag |-> "undefined", n |-> 0]
NaN == [tag |-> "NaN", n |-> 0]
Num(k) == [tag |-> "num", n |-> k]

\* level + 1
Plus1(level) == IF level.tag = "num" THEN Num(level.n + 1) ELSE NaN

\* level >= k: false for undefined and for NaN
GreaterEq(level, k) == level.tag = "num" /\ level.n >= k

\* ---------------------------------------------------------------- resolver

\* Outcomes of a call: a returned reference string, a returned false, or a
\* raised error. 'deep' is the deepest nesting of calls the call reached.
RetRef(s, d) == [kind |-> "ref", ref |-> s, err |-> "", deep |-> d]
RetFalse(d) == [kind |-> "false", ref |-> <<>>, err |-> "", deep |-> d]
Raise(e, d) == [kind |-> "throw", ref |-> <<>>, err |-> e, deep |-> d]

Max(a, b) == IF a >= b THEN a ELSE b

\* The for-in loop over window.frames: the key of the first frame that is
\* the target, or Null. (The keys are the frame indexes; the frames are
\* Window objects, and comparing two window references raises nothing.)
DirectFrame(w, target) ==
    IF \E i \in 1 .. Len(frames[w]) : frames[w][i] = target
    THEN CHOOSE i \in 1 .. Len(frames[w]) :
             frames[w][i] = target /\ \A j \in 1 .. i - 1 : frames[w][j] # target
    ELSE Null

RECURSIVE transverseLevel(_, _, _, _)
RECURSIVE FramesLoop(_, _, _, _, _)

\* for (var i = 0; i < window.frames.length; i++): the first frame whose
\* recursive call returns a reference decides; a raised error propagates.
\* i is the 1-based position, i - 1 the JavaScript index.
FramesLoop(w, target, level, depth, i) ==
    IF i > Len(frames[w])
    THEN RetFalse(depth)
    ELSE LET r == transverseLevel(frames[w][i], target, Plus1(level), depth + 1)
         IN  IF r.kind = "throw" THEN r
             ELSE IF r.kind = "ref"
             THEN RetRef(<<"f", ",">> \o IndexStr(i - 1) \o <<".">> \o r.ref, r.deep)
             ELSE LET rest == FramesLoop(w, target, level, depth, i + 1)
                  IN  [rest EXCEPT !.deep = Max(r.deep, rest.deep)]

\* transverseLevel(window, target, level); depth is the nesting of the call
\* on the JavaScript stack.
transverseLevel(w, target, level, depth) ==
    IF depth > MaxStack THEN Raise("RangeError", depth)
    ELSE IF Len(frames[w]) > 0 /\ DirectFrame(w, target) # Null
    THEN RetRef(<<"f", ",">> \o IndexStr(DirectFrame(w, target) - 1), depth)
    ELSE IF parent[w] = target THEN RetRef(<<"p">>, depth)
    ELSE IF opener[w] # Null /\ opener[w] = target THEN RetRef(<<"o">>, depth)
    ELSE IF GreaterEq(level, MaxDepth) THEN RetFalse(depth)
    ELSE
      LET fr == FramesLoop(w, target, level, depth, 1)
      IN  IF fr.kind # "false" THEN fr
          ELSE
            LET pr == IF parent[w] # w
                      THEN transverseLevel(parent[w], target, Plus1(level), depth + 1)
                      ELSE RetFalse(depth)
            IN  IF pr.kind = "throw" THEN pr
                ELSE IF pr.kind = "ref"
                THEN RetRef(<<"p", ".">> \o pr.ref, Max(fr.deep, pr.deep))
                ELSE
                  LET opr == IF opener[w] # Null /\ opener[w] # w
                            THEN transverseLevel(opener[w], target, Plus1(level), depth + 1)
                            ELSE RetFalse(depth)
                      d == Max(fr.deep, Max(pr.deep, opr.deep))
                  IN  IF opr.kind = "throw" THEN opr
                      ELSE IF opr.kind = "ref"
                      THEN RetRef(<<"o">> \o opr.ref, d)
                      ELSE RetFalse(d)

\* A target of serializeWindowReference: a window handle or a window name.
Handle(w) == [isName |-> FALSE, win |-> w, name |-> <<>>]
Named(s) == [isName |-> TRUE, win |-> Null, name |-> s]

SelfError == "Trying to postMessage to self. Pointlessly useless."
SerializeError == "Couldn't serialize window reference"

\* serializeWindowReference without the test for the current window.
MutSerializeNoSelfTest(currentWindow, targetWindow) ==
    IF targetWindow.isName THEN RetRef(<<":">> \o targetWindow.name, 0)
    ELSE IF parent[currentWindow] # currentWindow
            /\ parent[currentWindow] = targetWindow.win
    THEN RetRef(<<"p">>, 0)
    ELSE IF opener[currentWindow] # Null /\ opener[currentWindow] # currentWindow
            /\ opener[currentWindow] = targetWindow.win
    THEN RetRef(<<"o">>, 0)
    ELSE LET r == transverseLevel(currentWindow, targetWindow.win, Undefined, 1)
         IN  IF r.kind = "false" THEN Raise(SerializeError, r.deep) ELSE r

\* serializeWindowReference with the test for the opener before the test for
\* the parent.
MutSerializeOpenerFirst(currentWindow, targetWindow) ==
    IF targetWindow.isName THEN RetRef(<<":">> \o targetWindow.name, 0)
    ELSE IF currentWindow = targetWindow.win THEN Raise(SelfError, 0)
    ELSE IF opener[currentWindow] # Null /\ opener[currentWindow] # currentWindow
            /\ opener[currentWindow] = targetWindow.win
    THEN RetRef(<<"o">>, 0)
    ELSE IF parent[currentWindow] # currentWindow
            /\ parent[currentWindow] = targetWindow.win
    THEN RetRef(<<"p">>, 0)
    ELSE LET r == transverseLevel(currentWindow, targetWindow.win, Undefined, 1)
         IN  IF r.kind = "false" THEN Raise(SerializeError, r.deep) ELSE r

\* serializeWindowReference(currentWindow, targetWindow)
serializeWindowReference(currentWindow, targetWindow) ==
    IF targetWindow.isName THEN RetRef(<<":">> \o targetWindow.name, 0)
    ELSE IF currentWindow = targetWindow.win THEN Raise(SelfError, 0)
    ELSE IF parent[currentWindow] # currentWindow
            /\ parent[currentWindow] = targetWindow.win
    THEN RetRef(<<"p">>, 0)
    ELSE IF opener[currentWindow] # Null /\ opener[currentWindow] # currentWindow
            /\ opener[currentWindow] = targetWindow.win
    THEN RetRef(<<"o">>, 0)
    ELSE LET r == transverseLevel(currentWindow, targetWindow.win, Undefined, 1)
         IN  IF r.kind = "false" THEN Raise(SerializeError, r.deep) ELSE r

\* ------------------------------------------------- the proxy page's resolver

\* One hop of a serialized path, applied at window w: 'p', 'o' or 'f,<index>'.
\* Anything else names no window.
ApplyHop(w, seg) ==
    IF w = Null THEN Null
    ELSE IF seg = <<"p">> THEN parent[w]
    ELSE IF seg = <<"o">> THEN opener[w]
    ELSE IF Len(seg) = 3 /\ seg[1] = "f" /\ seg[2] = ","
            /\ \E i \in 1 .. Len(frames[w]) : IndexStr(i - 1) = <<seg[3]>>
    THEN frames[w][CHOOSE i \in 1 .. Len(frames[w]) : IndexStr(i - 1) = <<seg[3]>>]
    ELSE Null

RECURSIVE ApplyHops(_, _)
ApplyHops(w, segs) ==
    IF segs = <<>> THEN w ELSE ApplyHops(ApplyHop(w, Head(segs)), Tail(segs))

\* The window a serialized path names, walked hop by hop from 'start'.
ApplyPath(start, path) == ApplyHops(start, Split(path, "."))

\* The window the proxy page finds for a serialized path: it walks the hops
\* from its own window, a frame of the sending window with no frame and no
\* opener of its own.
ProxyResolve(sendingWindow, path) ==
    LET segs == Split(path, ".")
    IN  IF Head(segs) = <<"p">> THEN ApplyHops(sendingWindow, Tail(segs)) ELSE Null

\* ------------------------------------------------------------- JS values

\* A value that is a string or undefined.
UndefVal == [t |-> "undefined", s |-> <<>>]
Str(s) == [t |-> "string", s |-> s]

\* !v: undefined and the empty string are falsy.
Falsy(v) == v.t = "undefined" \/ v.s = <<>>

\* A 'message' event as a handler bound with $(window).on sees it. A native
\* event has an originalEvent with data and origin and no extra arguments; an
\* event raised with $(window).trigger has no originalEvent and carries the
\* extra parameter of trigger as the handler's second argument. jQuery's
\* trigger(type, data) takes one extra parameter: a third argument is not
\* passed on, so the handler's 'origin' parameter is undefined.
\* 'native' tells whether the event has an originalEvent; evData and evOrigin
\* are the data and origin of the originalEvent when it has one, of the event
\* itself otherwise; argData and argOrigin are the handler's extra arguments.
NativeEvent(data, origin) ==
    [native |-> TRUE, evData |-> Str(data), evOrigin |-> Str(origin),
     argData |-> UndefVal, argOrigin |-> UndefVal]
TriggeredEvent(data, origin) ==
    [native |-> FALSE, evData |-> UndefVal, evOrigin |-> UndefVal,
     argData |-> Str(data), argOrigin |-> UndefVal]

\* No event.
NoEv == [native |-> FALSE, evData |-> UndefVal, evOrigin |-> UndefVal,
         argData |-> UndefVal, argOrigin |-> UndefVal]

\* ------------------------------------------------- resolver, as a machine

\* The state of the sending page.
sender == <<window, browserSupportsPostMessage, cacheBuster, iframes, loaded, last>>

\* The native call was not made.
NotCalled == [called |-> FALSE, ok |-> FALSE, number |-> 0]

\* The last call of $.postMessage: its arguments; how it ended (returned, or
\* raised err, with ex.number when it is the native call's error); the calls
\* of the native API and what the call did; what the read of the hook gave,
\* the calls of the hook, whether the hook raised and the callbacks it
\* called; the serialized reference, and the frame created with the token of
\* its URL and its src.
NoSend == [called |-> FALSE, message |-> <<>>, targetHost |-> <<>>,
           targetWindow |-> Null, targetWindowName |-> <<>>,
           outcome |-> "none", err |-> "", number |-> 0,
           nativeCalls |-> <<>>, native |-> NotCalled,
           hookRead |-> "none", hookCalls |-> <<>>, hookRaised |-> FALSE,
           delivered |-> <<>>,
           ref |-> <<>>, frame |-> Null, token |-> <<>>, src |-> <<>>]

\* The page as the script leaves it: var cacheBuster = 1, no proxy frame.
InitSender ==
    /\ cacheBuster = 1
    /\ iframes = <<>>
    /\ loaded = {}
    /\ last = NoSend

\* The last event on the page: a registration, or a 'message' event (native,
\* raised by the hook, or raised by the page's own code) with the event the
\* handlers saw, the callbacks called and whether the dispatch raised.
NoEvent == [kind |-> "none", data |-> <<>>, origin |-> <<>>, ev |-> NoEv,
            calls |-> <<>>, raised |-> FALSE, err |-> ""]

NoCall == [called |-> FALSE, src |-> Null, tgt |-> Handle(Null), out |-> RetFalse(0)]

\* Window names: a browsing context name is any string that does not start
\* with '_'.
WindowNames == {<<"w">>, <<"w", "&", "x">>}

Targets == {Handle(w) : w \in Windows} \cup {Named(n) : n \in WindowNames}

InitGraph ==
    /\ parent \in ParentMaps
    /\ frames = [w \in Windows |-> ChildSeq(parent, w)]
    /\ opener \in OpenerMaps

InitResolve ==
    /\ InitGraph
    /\ resolved = NoCall
    /\ listeners = <<>>
    /\ received = NoEvent
    /\ InitSender
    /\ window = 1
    /\ browserSupportsPostMessage = TRUE

\* A call serializeWindowReference(s, t) by the page in window s.
Resolve(s, t) ==
    /\ resolved' = [called |-> TRUE, src |-> s, tgt |-> t,
                    out |-> serializeWindowReference(s, t)]
    /\ UNCHANGED <<frames, parent, opener, listeners, received, sender>>

NextResolve == \E s \in Windows, t \in Targets : Resolve(s, t)

vars == <<frames, parent, opener, resolved, listeners, received, sender>>

SpecResolve == InitResolve /\ [][NextResolve]_vars

\* Number of windows of a chain of windows.
ChainLen == 7

\* A chain of windows: each window after the first is a child frame of the
\* window before it or a popup the window before it opened.
InitChain ==
    /\ \E kind \in [2 .. ChainLen -> {"frame", "popup"}] :
          /\ parent = [w \in 1 .. ChainLen |->
                          IF w > 1 /\ kind[w] = "frame" THEN w - 1 ELSE w]
          /\ opener = [w \in 1 .. ChainLen |->
                          IF w > 1 /\ kind[w] = "popup" THEN w - 1 ELSE Null]
    /\ frames = [w \in 1 .. ChainLen |-> ChildSeq(parent, w)]
    /\ resolved = NoCall
    /\ listeners = <<>>
    /\ received = NoEvent
    /\ InitSender
    /\ window = 1
    /\ browserSupportsPostMessage = TRUE

NextChain == \E s \in 1 .. ChainLen, t \in 1 .. ChainLen : Resolve(s, Handle(t))

SpecChain == InitChain /\ [][NextChain]_vars

\* The windows at most k hops (child frame, parent, opener) away from w.
RECURSIVE Reach(_, _)
Reach(w, k) ==
    IF k = 0 THEN {w}
    ELSE LET R == Reach(w, k - 1)
         IN  R \cup UNION {{frames[v][i] : i \in 1 .. Len(frames[v])} : v \in R}
               \cup {parent[v] : v \in R}
               \cup ({opener[v] : v \in R} \ {Null})

\* ---------------------------------------------------------------- receiver

\* An allow-rule is a string or a function of the origin; a function is
\* modelled by the set of origin values it returns true for.
StringRule(s) == [kind |-> "string", str |-> s, accepts |-> {}]
FunctionRule(S) == [kind |-> "function", str |-> <<>>, accepts |-> S]
NoRule == [kind |-> "undefined", str |-> <<>>, accepts |-> {}]

\* isOriginMatch without the test for the wildcard.
MutOriginMatchNoWildcard(originPatternOrFunction, sourceOrigin) ==
    IF originPatternOrFunction.kind = "string"
       /\ sourceOrigin # Str(originPatternOrFunction.str)
    THEN FALSE
    ELSE IF originPatternOrFunction.kind = "function"
            /\ sourceOrigin \notin originPatternOrFunction.accepts
    THEN FALSE
    ELSE TRUE

\* isOriginMatch(originPatternOrFunction, sourceOrigin)
isOriginMatch(originPatternOrFunction, sourceOrigin) ==
    IF originPatternOrFunction.kind = "string"
       /\ sourceOrigin # Str(originPatternOrFunction.str)
       /\ originPatternOrFunction.str # <<"*">>
    THEN FALSE
    ELSE IF originPatternOrFunction.kind = "function"
            /\ sourceOrigin \notin originPatternOrFunction.accepts
    THEN FALSE
    ELSE TRUE

\* The handler with the rule applied to the origin it reports, whatever the
\* event.
MutHandlerChecksReported(entry, ev) ==
    LET data == IF Falsy(ev.argData) THEN ev.evData ELSE ev.argData
        origin == IF Falsy(ev.argOrigin) THEN ev.evOrigin ELSE ev.argOrigin
    IN  IF isOriginMatch(entry.rule, origin)
        THEN [called |-> TRUE, data |-> data, origin |-> origin]
        ELSE [called |-> FALSE, data |-> UndefVal, origin |-> UndefVal]

\* The handler bound by $.receiveMessage for one entry, run on event ev:
\* what the callback is called with, or no call.
handler(entry, ev) ==
    LET data == IF Falsy(ev.argData) THEN ev.evData ELSE ev.argData
        origin == IF Falsy(ev.argOrigin) THEN ev.evOrigin ELSE ev.argOrigin
    IN  IF isOriginMatch(entry.rule, IF ev.native THEN ev.evOrigin ELSE origin)
        THEN [called |-> TRUE, data |-> data, origin |-> origin]
        ELSE [called |-> FALSE, data |-> UndefVal, origin |-> UndefVal]

\* dispatch as if a handler that returns false stopped the handlers after it.
RECURSIVE MutDispatchStopsOnFalse(_, _, _)
MutDispatchStopsOnFalse(ls, ev, i) ==
    IF i > Len(ls) THEN [calls |-> <<>>, raised |-> FALSE]
    ELSE LET h == handler(ls[i], ev)
             call == [idx |-> i, data |-> h.data, origin |-> h.origin]
         IN  IF ~h.called THEN [calls |-> <<>>, raised |-> FALSE]
             ELSE IF ls[i].callback = "throw"
             THEN [calls |-> <<call>>, raised |-> TRUE]
             ELSE IF ls[i].callback = "false"
             THEN [calls |-> <<call>>, raised |-> FALSE]
             ELSE LET rest == MutDispatchStopsOnFalse(ls, ev, i + 1)
                  IN  [calls |-> <<call>> \o rest.calls, raised |-> rest.raised]

\* jQuery runs the handlers bound to the event in the order they were bound.
\* A handler that returns false does not stop the handlers after it; one
\* that raises ends the dispatch, and the error reaches the dispatcher.
RECURSIVE dispatch(_, _, _)
dispatch(ls, ev, i) ==
    IF i > Len(ls) THEN [calls |-> <<>>, raised |-> FALSE]
    ELSE LET h == handler(ls[i], ev)
             call == [idx |-> i, data |-> h.data, origin |-> h.origin]
         IN  IF ~h.called THEN dispatch(ls, ev, i + 1)
             ELSE IF ls[i].callback = "throw"
             THEN [calls |-> <<call>>, raised |-> TRUE]
             ELSE LET rest == dispatch(ls, ev, i + 1)
                  IN  [calls |-> <<call>> \o rest.calls, raised |-> rest.raised]

\* ----------------------------------------------------------- percent coding

\* The character a %XX escape stands for.
Unescape(d1, d2) ==
    IF <<d1, d2>> = <<"2", "5">> THEN "%"
    ELSE IF <<d1, d2>> = <<"2", "6">> THEN "&"
    ELSE "?"

IsHex(c) == \E i \in 1 .. Len(Digits) : Digits[i] = c

\* decodeURIComponent(s): the decoded string, or URIError for a '%' that no
\* two hexadecimal digits follow.
RECURSIVE decodeURIComponent(_)
decodeURIComponent(s) ==
    IF s = <<>> THEN [ok |-> TRUE, s |-> <<>>]
    ELSE IF Head(s) # "%"
    THEN LET r == decodeURIComponent(Tail(s))
         IN  [ok |-> r.ok, s |-> IF r.ok THEN <<Head(s)>> \o r.s ELSE <<>>]
    ELSE IF Len(s) >= 3 /\ IsHex(s[2]) /\ IsHex(s[3])
    THEN LET r == decodeURIComponent(SubSeq(s, 4, Len(s)))
         IN  [ok |-> r.ok, s |-> IF r.ok THEN <<Unescape(s[2], s[3])>> \o r.s ELSE <<>>]
    ELSE [ok |-> FALSE, s |-> <<>>]

\* encodeURIComponent(s): '%' and '&' are escaped, letters and digits kept.
RECURSIVE encodeURIComponent(_)
encodeURIComponent(s) ==
    IF s = <<>> THEN <<>>
    ELSE (IF Head(s) = "%" THEN <<"%", "2", "5">>
          ELSE IF Head(s) = "&" THEN <<"%", "2", "6">>
          ELSE <<Head(s)>>) \o encodeURIComponent(Tail(s))

\* -------------------------------------------------------- the delivery hook

\* window.__receiveMessageHook(message, origin) of a page whose registered
\* entries are ls: the callbacks it calls, and whether it raises.
receiveMessageHook(ls, message, origin) ==
    LET d == decodeURIComponent(message)
    IN  IF ~d.ok THEN [calls |-> <<>>, raised |-> TRUE]
        ELSE dispatch(ls, TriggeredEvent(d.s, origin), 1)

\* The event the hook raises for a message, if decoding does not raise.
HookEvent(message, origin) ==
    IF decodeURIComponent(message).ok
    THEN TriggeredEvent(decodeURIComponent(message).s, origin)
    ELSE NoEv

\* ------------------------------------------------- receiver, as a machine

\* Number of entries a page registers.
MaxListeners == 2

OriginA == <<"http", ":", "/", "/", "a">>
OriginB == <<"http", ":", "/", "/", "b">>
Origins == {OriginA, OriginB}

Messages == {<<"a">>, <<"%">>, <<>>}

Rules == {NoRule, StringRule(<<"*">>), StringRule(OriginA), FunctionRule({Str(OriginB)})}

\* What a callback does when called: return nothing, return false, or raise.
Callbacks == {"return", "false", "throw"}

NoCallback == "undefined"

\* $.receiveMessage(callback, allowedOriginOrFunction)
receiveMessage(callback, allowedOriginOrFunction) ==
    /\ Len(listeners) < MaxListeners
    /\ IF callback = NoCallback
       THEN /\ received' = [NoEvent EXCEPT !.kind = "register",
                                           !.err = "No callback function specified"]
            /\ UNCHANGED listeners
       ELSE /\ listeners' = Append(listeners,
                 [callback |-> callback,
                  rule |-> IF allowedOriginOrFunction.kind = "undefined"
                              \/ (allowedOriginOrFunction.kind = "string"
                                  /\ allowedOriginOrFunction.str = <<>>)
                           THEN StringRule(<<"*">>)
                           ELSE allowedOriginOrFunction])
            /\ received' = [NoEvent EXCEPT !.kind = "register"]
    /\ UNCHANGED <<frames, parent, opener, resolved, sender>>

\* The browser delivers a native message event with this data and origin.
OnMessage(data, origin) ==
    /\ LET r == dispatch(listeners, NativeEvent(data, origin), 1)
       IN  received' = [kind |-> "native", data |-> data, origin |-> origin,
                        ev |-> NativeEvent(data, origin),
                        calls |-> r.calls, raised |-> r.raised, err |-> ""]
    /\ UNCHANGED <<frames, parent, opener, resolved, listeners, sender>>

\* Another page, or the proxy page, calls this page's delivery hook.
OnHook(message, origin) ==
    /\ LET r == receiveMessageHook(listeners, message, origin)
       IN  received' = [kind |-> "hook", data |-> message, origin |-> origin,
                        ev |-> HookEvent(message, origin),
                        calls |-> r.calls, raised |-> r.raised, err |-> ""]
    /\ UNCHANGED <<frames, parent, opener, resolved, listeners, sender>>

\* What an event's origin, or the handler's 'origin' argument, may be.
OriginValues == {UndefVal} \cup {Str(o) : o \in Origins}

\* Code of the page raises a 'message' event itself, with
\* $(window).trigger(event, [data, origin]): the event wraps a native event
\* (originalEvent) or is a plain one with an origin of its own or none, and
\* the extra parameters reach the handlers as 'data' and 'origin'.
OnTrigger(native, evOrigin, argData, argOrigin) ==
    /\ native => evOrigin # UndefVal
    /\ LET ev == [native |-> native, evData |-> Str(<<"a">>),
                  evOrigin |-> evOrigin, argData |-> argData,
                  argOrigin |-> argOrigin]
           r == dispatch(listeners, ev, 1)
       IN  received' = [kind |-> "trigger", data |-> <<>>, origin |-> <<>>,
                        ev |-> ev, calls |-> r.calls, raised |-> r.raised,
                        err |-> ""]
    /\ UNCHANGED <<frames, parent, opener, resolved, listeners, sender>>

\* The page stands alone in its window: the receiver does not read the graph.
InitReceive ==
    /\ parent = [w \in Windows |-> w]
    /\ frames = [w \in Windows |-> <<>>]
    /\ opener = [w \in Windows |-> Null]
    /\ resolved = NoCall
    /\ listeners = <<>>
    /\ received = NoEvent
    /\ InitSender
    /\ window = 1
    /\ browserSupportsPostMessage = TRUE

NextReceive ==
    \/ \E c \in Callbacks \cup {NoCallback}, r \in Rules : receiveMessage(c, r)
    \/ \E m \in Messages, o \in Origins : OnMessage(m, o)
    \/ \E m \in Messages, o \in Origins : OnHook(m, o)
    \/ \E native \in BOOLEAN, evOrigin \in OriginValues,
          argData \in {UndefVal, Str(<<"b">>)}, argOrigin \in OriginValues :
            OnTrigger(native, evOrigin, argData, argOrigin)

SpecReceive == InitReceive /\ [][NextReceive]_vars

\* ------------------------------------------------------------------ sender

\* The decimal digits of a number, as JavaScript's string conversion gives.
RECURSIVE NumStr(_)
NumStr(n) == IF n < 10 THEN <<Digits[n + 1]>>
             ELSE NumStr(n \div 10) \o <<Digits[(n % 10) + 1]>>

\* getDomainFromUrl(url): url.replace(/([^:]+:\/\/[^\/]+).*/, '$1'). The
\* leftmost match starts before the first ':' that follows a character other
\* than ':' and is followed by '//' and a character other than '/'; the
\* match runs to the end of the string, and what replaces it ends with the
\* last character before the next '/'. A url with no match is unchanged.
getDomainFromUrl(url) ==
    LET IsSep(c) == /\ c >= 2 /\ c + 3 <= Len(url)
                    /\ url[c] = ":" /\ url[c - 1] # ":"
                    /\ url[c + 1] = "/" /\ url[c + 2] = "/" /\ url[c + 3] # "/"
    IN  IF \E c \in 1 .. Len(url) : IsSep(c)
        THEN LET c == CHOOSE k \in 1 .. Len(url) :
                          IsSep(k) /\ \A j \in 1 .. k - 1 : ~IsSep(j)
                 e == CHOOSE k \in c + 3 .. Len(url) :
                          /\ \A j \in c + 3 .. k : url[j] # "/"
                          /\ (k = Len(url) \/ url[k + 1] = "/")
             IN  SubSeq(url, 1, e)
        ELSE url

\* ex.number of IE's 'No such interface supported'
NoSuchInterface == -2147467262

\* ex.number of IE's 'Access is denied'
AccessDenied == -2147024891

\* What targetWindow.postMessage(message, targetHost) does: it returns, or
\* raises an error with this number.
NativeResults == {[ok |-> TRUE, number |-> 0],
                  [ok |-> FALSE, number |-> NoSuchInterface],
                  [ok |-> FALSE, number |-> AccessDenied]}

\* What reading targetWindow.__receiveMessageHook gives: the read raises (a
\* window of another origin), there is no hook, or the hook of the page.
HookAccess == {"denied", "absent", "present"}

ProxyPage == <<"/vp/JS-Lib/jQuery/plugins/postmessage.htm", "#">>

\* document.location.href of the sending page
Href == OriginA \o <<"/", "i">>

\* (+new Date()) + cacheBuster, after a string: the digits of the time
\* followed by the digits of the counter.
FreshnessToken(now) == NumStr(now) \o NumStr(cacheBuster)

\* The src of the proxy frame.
ProxySrc(targetHost, now, serializedWindowRef, thisDomain, message) ==
    targetHost \o ProxyPage \o FreshnessToken(now) \o <<"&">>
        \o serializedWindowRef \o <<"&">> \o thisDomain \o <<"&">>
        \o encodeURIComponent(message)

\* The part of $.postMessage after the direct call: the proxy frame.
proxyStep(r, message, targetHost, targetWindow, targetWindowName, now) ==
    LET ref == serializeWindowReference(window,
                   IF targetWindowName # <<>> THEN Named(targetWindowName)
                   ELSE Handle(targetWindow))
    IN  IF ref.kind = "throw"
        THEN [r EXCEPT !.outcome = "raised", !.err = ref.err]
        ELSE [r EXCEPT !.outcome = "returned", !.ref = ref.ref,
                       !.frame = cacheBuster,
                       !.token = FreshnessToken(now),
                       !.src = ProxySrc(targetHost, now, ref.ref,
                                        getDomainFromUrl(Href), message)]

\* The direct call: read the hook of the target window and call it. An error
\* raised by the read or by the hook is caught and dropped.
directStep(r, message, targetHost, targetWindow, targetWindowName, now, access, page) ==
    IF access = "present"
    THEN LET h == receiveMessageHook(page, message, Str(targetHost))
             r1 == [r EXCEPT !.hookRead = access,
                             !.hookCalls = <<[win |-> targetWindow,
                                            message |-> message,
                                            origin |-> targetHost]>>,
                             !.hookRaised = h.raised,
                             !.delivered = h.calls]
         IN  IF h.raised
             THEN proxyStep(r1, message, targetHost, targetWindow, targetWindowName, now)
             ELSE [r1 EXCEPT !.outcome = "returned"]
    ELSE proxyStep([r EXCEPT !.hookRead = access], message, targetHost,
                   targetWindow, targetWindowName, now)

\* nativeStep with a catch that drops every error of the native call.
MutNativeStepDropsAll(r, message, targetHost, targetWindow, targetWindowName, now, native, access, page) ==
    IF browserSupportsPostMessage
    THEN LET r1 == [r EXCEPT !.nativeCalls = <<[win |-> targetWindow,
                                              message |-> message,
                                              origin |-> targetHost]>>,
                             !.native = [called |-> TRUE, ok |-> native.ok,
                                         number |-> native.number]]
         IN  IF native.ok THEN [r1 EXCEPT !.outcome = "returned"]
             ELSE directStep(r1, message, targetHost, targetWindow,
                             targetWindowName, now, access, page)
    ELSE directStep(r, message, targetHost, targetWindow, targetWindowName,
                    now, access, page)

\* nativeStep without the return after the native call.
MutNativeStepNoReturn(r, message, targetHost, targetWindow, targetWindowName, now, native, access, page) ==
    IF browserSupportsPostMessage
    THEN LET r1 == [r EXCEPT !.nativeCalls = <<[win |-> targetWindow,
                                              message |-> message,
                                              origin |-> targetHost]>>,
                             !.native = [called |-> TRUE, ok |-> native.ok,
                                         number |-> native.number]]
         IN  IF ~native.ok /\ native.number # NoSuchInterface
             THEN [r1 EXCEPT !.outcome = "raised", !.err = "native",
                             !.number = native.number]
             ELSE directStep(r1, message, targetHost, targetWindow,
                             targetWindowName, now, access, page)
    ELSE directStep(r, message, targetHost, targetWindow, targetWindowName,
                    now, access, page)

\* The native call, when the browser has window.postMessage.
nativeStep(r, message, targetHost, targetWindow, targetWindowName, now, native, access, page) ==
    IF browserSupportsPostMessage
    THEN LET r1 == [r EXCEPT !.nativeCalls = <<[win |-> targetWindow,
                                              message |-> message,
                                              origin |-> targetHost]>>,
                             !.native = [called |-> TRUE, ok |-> native.ok,
                                         number |-> native.number]]
         IN  IF native.ok THEN [r1 EXCEPT !.outcome = "returned"]
             ELSE IF native.number # NoSuchInterface
             THEN [r1 EXCEPT !.outcome = "raised", !.err = "native",
                             !.number = native.number]
             ELSE directStep(r1, message, targetHost, targetWindow,
                             targetWindowName, now, access, page)
    ELSE directStep(r, message, targetHost, targetWindow, targetWindowName,
                    now, access, page)

\* $.postMessage with its two tests of the arguments in the other order.
MutPostMessageTargetFirst(message, targetHost, targetWindow, targetWindowName, now, native, access, page) ==
    LET r == [NoSend EXCEPT !.called = TRUE, !.message = message,
                            !.targetHost = targetHost,
                            !.targetWindow = targetWindow,
                            !.targetWindowName = targetWindowName]
    IN  IF targetWindow = Null
        THEN [r EXCEPT !.outcome = "raised", !.err = "No targetWindow specified"]
        ELSE IF targetHost = <<>>
        THEN [r EXCEPT !.outcome = "raised",
                       !.err = "targetHost argument was not supplied to jQuery.postMessage"]
        ELSE nativeStep(r, message, getDomainFromUrl(targetHost), targetWindow,
                        targetWindowName, now, native, access, page)

\* The effect of $.postMessage(message, targetHost, targetWindow,
\* targetWindowName) at time 'now', when the native call does 'native', the
\* read of the hook gives 'access' and the target page has registered 'page'.
postMessageEffect(message, targetHost, targetWindow, targetWindowName, now, native, access, page) ==
    LET r == [NoSend EXCEPT !.called = TRUE, !.message = message,
                            !.targetHost = targetHost,
                            !.targetWindow = targetWindow,
                            !.targetWindowName = targetWindowName]
    IN  IF targetHost = <<>>
        THEN [r EXCEPT !.outcome = "raised",
                       !.err = "targetHost argument was not supplied to jQuery.postMessage"]
        ELSE IF targetWindow = Null
        THEN [r EXCEPT !.outcome = "raised", !.err = "No targetWindow specified"]
        ELSE nativeStep(r, message, getDomainFromUrl(targetHost), targetWindow,
                        targetWindowName, now, native, access, page)

\* -------------------------------------------------- sender, as a machine

\* Number of proxy frames a page creates.
MaxFrames == 2

\* The clock: +new Date() is between 0 and MaxTime.
MaxTime == 1

Times == 0 .. MaxTime

TargetHosts == {<<>>, OriginB \o <<"/", "p">>}

\* What a page has registered before a call: nothing, or one entry for any
\* origin whose callback returns, or one whose callback raises.
Pages == {<<>>,
          <<[callback |-> "return", rule |-> StringRule(<<"*">>)]>>,
          <<[callback |-> "throw", rule |-> StringRule(<<"*">>)]>>}

\* $.postMessage(message, targetHost, targetWindow, targetWindowName), called
\* at time 'now' in an environment where the native call does 'native', the
\* read of the target's hook gives 'access' and the target page has
\* registered 'page'. The sender's own hook is always there, and its page is
\* the sender's; a parameter the call cannot read takes its first value.
postMessage(message, targetHost, targetWindow, targetWindowName, now, native, access, page) ==
    /\ targetWindow = window => access = "present"
    /\ (targetWindow = window \/ access # "present") => page = <<>>
    /\ ~browserSupportsPostMessage => native.ok
    /\ LET e == postMessageEffect(message, targetHost, targetWindow,
                    targetWindowName, now, native, access,
                    IF targetWindow = window THEN listeners ELSE page)
       IN  /\ last' = e
           /\ IF e.frame # Null
              THEN /\ iframes' = [i \in DOMAIN iframes \cup {e.frame} |->
                                     IF i = e.frame THEN e.src ELSE iframes[i]]
                   /\ cacheBuster' = cacheBuster + 1
              ELSE UNCHANGED <<iframes, cacheBuster>>
           /\ IF targetWindow = window /\ e.hookCalls # <<>>
              THEN received' = [kind |-> "hook", data |-> message,
                                origin |-> e.hookCalls[1].origin,
                                ev |-> HookEvent(message, e.hookCalls[1].origin),
                                calls |-> e.delivered,
                                raised |-> e.hookRaised,
                                err |-> ""]
              ELSE UNCHANGED received
    /\ UNCHANGED <<frames, parent, opener, resolved, listeners, window,
                   browserSupportsPostMessage, loaded>>

\* A load handler that does not remove the frame.
MutLoadKeepsFrame(id) ==
    /\ id \in DOMAIN iframes
    /\ loaded' = loaded \cup {id}
    /\ UNCHANGED <<frames, parent, opener, resolved, listeners, received,
                   window, browserSupportsPostMessage, cacheBuster, last, iframes>>

\* A load handler that removes the frame created last (one 'iframe' variable
\* shared by all calls) in place of its own.
MutLoadRemovesNewest(id) ==
    /\ id \in DOMAIN iframes
    /\ iframes' = [i \in {j \in DOMAIN iframes : \E k \in DOMAIN iframes : k > j}
                     |-> iframes[i]]
    /\ loaded' = loaded \cup {id}
    /\ UNCHANGED <<frames, parent, opener, resolved, listeners, received,
                   window, browserSupportsPostMessage, cacheBuster, last>>

\* The load event of proxy frame id fires: $(iframe).remove()
Load(id) ==
    /\ id \in DOMAIN iframes
    /\ iframes' = [i \in DOMAIN iframes \ {id} |-> iframes[i]]
    /\ loaded' = loaded \cup {id}
    /\ UNCHANGED <<frames, parent, opener, resolved, listeners, received,
                   window, browserSupportsPostMessage, cacheBuster, last>>

\* The sending page in the newest window of a graph in which it alone may
\* have an opener, in a browser with or without window.postMessage.
Init ==
    /\ parent \in ParentMaps
    /\ frames = [w \in Windows |-> ChildSeq(parent, w)]
    /\ window = MaxWindows
    /\ opener \in {o \in OpenerMaps : \A w \in Windows : w # window => o[w] = Null}
    /\ browserSupportsPostMessage \in BOOLEAN
    /\ resolved = NoCall
    /\ listeners \in Pages
    /\ received = NoEvent
    /\ InitSender

\* One call of $.postMessage on the page as loaded, with any arguments and
\* in any environment, and the load of the frame it may create.
Next ==
    \/ /\ ~last.called
       /\ \E message \in Messages, targetHost \in TargetHosts,
             targetWindow \in Windows \cup {Null},
             targetWindowName \in WindowNames \cup {<<>>},
             now \in Times, native \in NativeResults, access \in HookAccess,
             page \in Pages :
               postMessage(message, targetHost, targetWindow, targetWindowName,
                           now, native, access, page)
    \/ \E id \in 1 .. MaxFrames : Load(id)

Spec == Init /\ [][Next]_vars

\* Calls in succession by a page in a frame (window 2 inside window 1) of a
\* browser without window.postMessage, to windows whose hook may be out of
\* reach, so that proxy frames are in flight together. The targets are the
\* parent (window 1), the sender itself (window 2) and a window the sender
\* has no relation to (window 3); the clock gives its first or its last
\* value.
InitFrames ==
    /\ parent = [w \in Windows |-> IF w = 2 THEN 1 ELSE w]
    /\ frames = [w \in Windows |-> ChildSeq(parent, w)]
    /\ window = 2
    /\ opener = [w \in Windows |-> Null]
    /\ browserSupportsPostMessage = FALSE
    /\ resolved = NoCall
    /\ listeners = <<>>
    /\ received = NoEvent
    /\ InitSender

NextFrames ==
    \/ \E message \in Messages, targetWindow \in {1, 2, 3}, now \in {0, MaxTime},
          access \in HookAccess, page \in Pages :
            /\ cacheBuster <= MaxFrames
            /\ postMessage(message, OriginB, targetWindow, <<>>, now,
                        [ok |-> TRUE, number |-> 0], access, page)
    \/ \E id \in 1 .. MaxFrames : Load(id)

\* Every load event that is due fires.
SpecFrames ==
    InitFrames /\ [][NextFrames]_vars
        /\ \A id \in 1 .. MaxFrames : WF_vars(Load(id))

\* Number of calls a script makes in one run.
MaxSends == 11

\* What the clock gives at two calls: a time, and a time ten times later and
\* more.
TokenTimes == {1, 11}

\* A script of a page in a frame, in a browser without window.postMessage,
\* sends message after message to its parent, a window of another origin,
\* in one run: no load event is dispatched before the script ends, and every
\* frame it has created is in the document. The clock may be set between
\* two calls.
NextTokens ==
    \E now \in TokenTimes :
        /\ cacheBuster <= MaxSends
        /\ postMessage(<<"a">>, OriginB, 1, <<>>, now,
                       [ok |-> TRUE, number |-> 0], "denied", <<>>)

SpecTokens == InitFrames /\ [][NextTokens]_vars

\* ================================================================== claims

\* The call recorded in 'resolved' is for a window handle other than the
\* source.
ResolvedHandle ==
    /\ resolved.called
    /\ ~resolved.tgt.isName
    /\ resolved.src # resolved.tgt.win

\* C1: whenever the target is another window at most 4 hops (child frame,
\* parent, opener) from the source, serializeWindowReference returns a path,
\* and the path's hops applied in order from the source lead to the target.
C1_ResolveReachesTarget ==
    (ResolvedHandle /\ resolved.tgt.win \in Reach(resolved.src, MaxDepth))
        => /\ resolved.out.kind = "ref"
           /\ ApplyPath(resolved.src, resolved.out.ref) = resolved.tgt.win

\* C2: serializeWindowReference terminates on every graph: the calls of
\* transverseLevel nest no deeper than the levels 0 to 4, and when the target
\* is not within that depth the call fails with "Couldn't serialize window
\* reference".
C2_ResolveStopsAtMaxDepth ==
    ResolvedHandle
        => /\ resolved.out.deep <= MaxDepth + 1
           /\ resolved.tgt.win \notin Reach(resolved.src, MaxDepth)
                => (resolved.out.kind = "throw" /\ resolved.out.err = SerializeError)

\* The last call of $.postMessage had its two required arguments.
ValidCall ==
    /\ last.called
    /\ last.targetHost # <<>>
    /\ last.targetWindow # Null

\* The native API is absent, or the native call raised the known code.
NativeFellThrough ==
    /\ ValidCall
    /\ \/ ~last.native.called
       \/ ~last.native.ok /\ last.native.number = NoSuchInterface

\* o is the origin of url: url up to the end of its host.
IsOriginOf(o, url) ==
    /\ Len(o) <= Len(url)
    /\ o = SubSeq(url, 1, Len(o))
    /\ Len(o) >= 5
    /\ <<o[2], o[3], o[4]>> = <<":", "/", "/">>
    /\ \A i \in 5 .. Len(o) : o[i] # "/"
    /\ Len(o) = Len(url) \/ url[Len(o) + 1] = "/"

\* C3 (as claimed): a call of $.postMessage whose target is the sending
\* window fails with the self-reference error, whatever the native support
\* and the hook, and calls no callback of the sender.
C3_SelfAlwaysFails ==
    (ValidCall /\ last.targetWindow = window)
        => /\ last.outcome = "raised"
           /\ last.err = SelfError
           /\ last.delivered = <<>>

\* C3 (amended): a call whose target is the sending window fails with the
\* self-reference error exactly when no window name is given and the call
\* gets to the proxy step: the native API is absent or raised the known code,
\* and the window's own hook, which is always there and is called, raised.
\* When the native call returns, or the hook returns, the call returns
\* without error and creates no frame; the hook has then called the
\* callbacks the sender itself registered.
C3_SelfFailsOnlyInProxyStep ==
    (ValidCall /\ last.targetWindow = window)
        => /\ (last.outcome = "raised" /\ last.err = SelfError)
                <=> (NativeFellThrough /\ last.hookRaised
                     /\ last.targetWindowName = <<>>)
           /\ NativeFellThrough
                => /\ last.hookRead = "present"
                   /\ Len(last.hookCalls) = 1
                   /\ last.hookCalls[1].win = window
           /\ (last.native.called /\ last.native.ok) \/ (NativeFellThrough /\ ~last.hookRaised)
                => (last.outcome = "returned" /\ last.frame = Null)
           /\ (NativeFellThrough /\ ~last.hookRaised)
                => (Len(last.delivered) = Len(listeners) /\ received.calls = last.delivered)

C3_Witness ==
    /\ ValidCall
    /\ last.targetWindow = window
    /\ last.outcome = "raised"
    /\ last.err = SelfError

\* C4: a failure of the native call with the known code is dropped and the
\* call goes on to read the target's hook; a failure with another code is
\* raised to the caller with its number, and then the hook is neither read
\* nor called and no frame is created.
C4_NativeFailure ==
    (last.native.called /\ ~last.native.ok)
        => IF last.native.number = NoSuchInterface
           THEN last.hookRead # "none"
           ELSE /\ last.outcome = "raised"
                /\ last.err = "native"
                /\ last.number = last.native.number
                /\ last.hookRead = "none"
                /\ last.hookCalls = <<>>
                /\ last.frame = Null
                /\ DOMAIN iframes = {}
                /\ cacheBuster = 1

C4_Witness ==
    /\ last.native.called
    /\ last.native.number = AccessDenied
    /\ last.outcome = "raised"

\* C5: when the native call returns, $.postMessage has called the native API
\* once, on the target with the message and the origin of targetHost, and
\* returns: the hook is neither read nor called, no frame is created and
\* cacheBuster keeps its value.
C5_NativeSuccess ==
    (last.native.called /\ last.native.ok)
        => /\ Len(last.nativeCalls) = 1
           /\ last.nativeCalls[1].win = last.targetWindow
           /\ last.nativeCalls[1].message = last.message
           /\ IsOriginOf(last.nativeCalls[1].origin, last.targetHost)
           /\ last.outcome = "returned"
           /\ last.hookRead = "none"
           /\ last.hookCalls = <<>>
           /\ last.frame = Null
           /\ DOMAIN iframes = {}
           /\ cacheBuster = 1

C5_Witness ==
    /\ last.native.called
    /\ last.native.ok
    /\ last.outcome = "returned"
    /\ last.nativeCalls[1].origin # last.targetHost

\* C6: when the native API is absent or raised the known code and the read
\* of the target's hook gives the hook, $.postMessage calls it with the
\* message and the origin of targetHost and returns without creating a
\* frame.
C6_HookCalledNoFrame ==
    (NativeFellThrough /\ last.hookRead = "present")
        => /\ Len(last.hookCalls) = 1
           /\ last.hookCalls[1].win = last.targetWindow
           /\ last.hookCalls[1].message = last.message
           /\ IsOriginOf(last.hookCalls[1].origin, last.targetHost)
           /\ last.outcome = "returned"
           /\ last.frame = Null
           /\ DOMAIN iframes = {}

\* The fields of the fragment of a proxy URL.
FragmentFields(src) == Split(Split(src, "#")[2], "&")

\* C7: when the native API is absent (or raised the known code) and the
\* target's hook cannot be reached, $.postMessage creates one frame whose
\* src is the origin of targetHost, the proxy page, '#' and a fragment whose
\* fields hold the sender's origin, the message (percent-encoded) and a path
\* that, walked from the proxy frame's own window, leads to the target.
C7_ProxyFrameResolves ==
    (/\ NativeFellThrough
     /\ last.hookRead \in {"denied", "absent"}
     /\ last.targetWindowName = <<>>
     /\ last.targetWindow # window)
        => /\ last.frame # Null
           /\ DOMAIN iframes \cup loaded = {last.frame}
           /\ \E o \in {SubSeq(last.src, 1, k) : k \in 0 .. Len(last.src)} :
                 /\ IsOriginOf(o, last.targetHost)
                 /\ SubSeq(last.src, 1, Len(o) + 2) = o \o ProxyPage
           /\ LET f == FragmentFields(last.src)
              IN  /\ Len(f) = 4
                  /\ f[3] = OriginA
                  /\ decodeURIComponent(f[4]) = [ok |-> TRUE, s |-> last.message]
                  /\ ProxyResolve(window, f[2]) = last.targetWindow

\* C8: every proxy frame in the document is removed in the end, by its load
\* event.
C8_FramesRemoved ==
    \A id \in 1 .. MaxFrames :
        (id \in DOMAIN iframes) ~> (id \notin DOMAIN iframes /\ id \in loaded)

C8_Witness ==
    /\ cacheBuster = MaxFrames + 1
    /\ DOMAIN iframes = {}
    /\ loaded = 1 .. MaxFrames

\* C9: with calls in succession and their load events in any order, each call
\* that falls back to the proxy adds one frame of its own, whose fragment
\* carries the message of that call; the src of a frame in the document never
\* changes; and a frame leaves the document only at its own load event, which
\* removes that frame and no other.
C9_FramesIndependent ==
    [][/\ \A id \in DOMAIN iframes \cap DOMAIN iframes' : iframes'[id] = iframes[id]
       /\ cacheBuster' # cacheBuster
            => /\ cacheBuster \notin DOMAIN iframes \cup loaded
               /\ DOMAIN iframes' = DOMAIN iframes \cup {cacheBuster}
               /\ loaded' = loaded
               /\ last'.frame = cacheBuster
               /\ decodeURIComponent(FragmentFields(iframes'[cacheBuster])[4])
                    = [ok |-> TRUE, s |-> last'.message]
       /\ cacheBuster' = cacheBuster
            => \/ /\ iframes' = iframes
                  /\ loaded' = loaded
               \/ \E id \in DOMAIN iframes :
                     /\ DOMAIN iframes' = DOMAIN iframes \ {id}
                     /\ loaded' = loaded \cup {id}
                     /\ id \notin loaded
      ]_vars

C9_Witness ==
    /\ DOMAIN iframes = {1}
    /\ loaded = {2}
    /\ FragmentFields(iframes[1])[4] # last.message

\* The rule lets the origin through: the wildcard, the origin itself, or a
\* function that returns true for it.
Allows(rule, o) ==
    \/ rule.kind = "string" /\ (rule.str = <<"*">> \/ rule.str = o)
    \/ rule.kind = "function" /\ Str(o) \in rule.accepts

\* The entries whose rule lets the origin of the last event through.
Allowed == {i \in 1 .. Len(listeners) : Allows(listeners[i].rule, received.origin)}

\* The calls of the last event are for the entries S, in order, once each,
\* with the event's data and origin.
CallsAre(S) ==
    /\ Len(received.calls) = Cardinality(S)
    /\ \A k \in 1 .. Len(received.calls) :
          /\ received.calls[k].idx \in S
          /\ received.calls[k].data = Str(received.data)
          /\ received.calls[k].origin = Str(received.origin)
          /\ \A j \in 1 .. k - 1 : received.calls[j].idx < received.calls[k].idx

\* C10 (as claimed): a native message event calls, once each, the callback
\* of every registered entry whose rule lets the event's origin through, with
\* the event's data and origin, and of no other entry.
C10_AllAllowedCalled ==
    received.kind = "native" => CallsAre(Allowed)

\* C10 (amended): a native message event calls, in the order of registration
\* and once each, the callbacks of the entries whose rule lets the event's
\* origin through, with the event's data and origin, up to and including the
\* first of them that raises; what a callback returns, false included, and the
\* entries whose rule does not let the origin through change nothing for the
\* others.
C10_AllowedCalledUntilRaise ==
    received.kind = "native"
        => LET Raising == {i \in Allowed : listeners[i].callback = "throw"}
           IN  /\ CallsAre({i \in Allowed : \A j \in Raising : i <= j})
               /\ received.raised <=> Raising # {}

C10_Witness ==
    /\ received.kind = "native"
    /\ Len(listeners) = 2
    /\ listeners[1].callback = "false"
    /\ Allowed = {1, 2}
    /\ Len(received.calls) = 2

\* C11: the fragment of the proxy URL, split on '&', has four fields: the
\* token, the serialized path or ':' and the window name, the sender's
\* origin, and the percent-encoded message, which decodes to the message.
C11_FragmentRoundTrip ==
    (last.called /\ last.frame # Null)
        => /\ last.ref = (IF last.targetWindowName # <<>>
                          THEN <<":">> \o last.targetWindowName
                          ELSE last.ref)
           /\ LET f == FragmentFields(last.src)
              IN  /\ Len(f) = 4
                  /\ f[1] = last.token
                  /\ f[2] = last.ref
                  /\ f[3] = OriginA
                  /\ decodeURIComponent(f[4]) = [ok |-> TRUE, s |-> last.message]

\* The script's two tests of its arguments.
MissingOrigin == "targetHost argument was not supplied to jQuery.postMessage"
MissingTarget == "No targetWindow specified"

\* Nothing was tried to deliver the message of the last call.
NoDeliveryAttempt ==
    /\ last.nativeCalls = <<>>
    /\ ~last.native.called
    /\ last.hookRead = "none"
    /\ last.hookCalls = <<>>
    /\ last.delivered = <<>>
    /\ last.frame = Null
    /\ DOMAIN iframes = {}
    /\ cacheBuster = 1
    /\ received = NoEvent

\* C12: a call with an empty targetHost raises the missing-targetHost error,
\* also when the target window is missing too; a call with a targetHost and
\* no target window raises the missing-targetWindow error; in both cases
\* nothing was tried: no native call, no read or call of the hook, no frame,
\* and cacheBuster keeps its value.
C12_MissingArguments ==
    last.called
        => /\ last.targetHost = <<>>
                => /\ last.outcome = "raised"
                   /\ last.err = MissingOrigin
                   /\ NoDeliveryAttempt
           /\ (last.targetHost # <<>> /\ last.targetWindow = Null)
                => /\ last.outcome = "raised"
                   /\ last.err = MissingTarget
                   /\ NoDeliveryAttempt
           /\ ValidCall => last.err \notin {MissingOrigin, MissingTarget}

C12_Witness ==
    /\ last.called
    /\ last.targetHost = <<>>
    /\ last.targetWindow = Null
    /\ last.err = MissingOrigin

\* C13: for the rule of every registered entry and every origin,
\* isOriginMatch is true for the rule "*"; for a string rule other than "*"
\* it is true for the origin equal to the rule and false for any other; for
\* a function it is true exactly for the origins the function returns true
\* for. On a native event the first entry's callback is called exactly when
\* isOriginMatch is true of its rule and the event's origin.
C13_OriginMatch ==
    /\ \A i \in 1 .. Len(listeners), o \in Origins :
          LET r == listeners[i].rule
              match == isOriginMatch(r, Str(o))
          IN  /\ (r.kind = "string" /\ r.str = <<"*">>) => match
              /\ (r.kind = "string" /\ r.str # <<"*">>) => (match <=> r.str = o)
              /\ r.kind = "function" => (match <=> Str(o) \in r.accepts)
    /\ (received.kind = "native" /\ Len(listeners) >= 1)
          => ((\E k \in 1 .. Len(received.calls) : received.calls[k].idx = 1)
                <=> isOriginMatch(listeners[1].rule, Str(received.origin)))

C13_Witness ==
    /\ received.kind = "native"
    /\ Len(listeners) = 2
    /\ listeners[1].rule = StringRule(OriginA)
    /\ listeners[2].rule = FunctionRule({Str(OriginB)})
    /\ received.origin = OriginB
    /\ Len(received.calls) = 1
    /\ received.calls[1].idx = 2

\* The target of the call recorded in 'resolved' is a child frame of the
\* source, and the path of its first index.
IsChildFrame ==
    \E i \in 1 .. Len(frames[resolved.src]) : frames[resolved.src][i] = resolved.tgt.win
ChildFramePath ==
    <<"f", ",">> \o IndexStr(DirectFrame(resolved.src, resolved.tgt.win) - 1)

\* C14 (as claimed): when the target stands in a direct relation to the
\* source, serializeWindowReference returns the single hop of the first
\* relation that holds in the order child frame, parent, opener.
C14_FramesParentOpener ==
    ResolvedHandle
        => /\ IsChildFrame
                => resolved.out = RetRef(ChildFramePath, resolved.out.deep)
           /\ (~IsChildFrame /\ parent[resolved.src] = resolved.tgt.win)
                => resolved.out.ref = <<"p">>
           /\ (~IsChildFrame /\ parent[resolved.src] # resolved.tgt.win
                 /\ opener[resolved.src] = resolved.tgt.win)
                => resolved.out.ref = <<"o">>

\* C14 (amended): when the target stands in a direct relation to the source,
\* serializeWindowReference returns the single hop of the first relation
\* that holds in the order parent, opener, child frame (the child frame of
\* the lowest index that is the target).
C14_ParentOpenerFrames ==
    ResolvedHandle
        => /\ parent[resolved.src] = resolved.tgt.win
                => resolved.out = RetRef(<<"p">>, 0)
           /\ (parent[resolved.src] # resolved.tgt.win
                 /\ opener[resolved.src] = resolved.tgt.win)
                => resolved.out = RetRef(<<"o">>, 0)
           /\ (parent[resolved.src] # resolved.tgt.win
                 /\ opener[resolved.src] # resolved.tgt.win
                 /\ IsChildFrame)
                => resolved.out = RetRef(ChildFramePath, 1)

\* The target is a child frame of the source and its opener.
C14_Witness ==
    /\ ResolvedHandle
    /\ IsChildFrame
    /\ opener[resolved.src] = resolved.tgt.win
    /\ resolved.out.ref = <<"o">>

\* A segment of the wire grammar: 'f,<index>', 'p' or 'o'.
IsSegment(seg) ==
    \/ seg = <<"p">>
    \/ seg = <<"o">>
    \/ /\ Len(seg) >= 3
       /\ seg[1] = "f"
       /\ seg[2] = ","
       /\ \A i \in 3 .. Len(seg) : IsHex(seg[i])

\* C15: every reference serializeWindowReference returns for a window handle
\* is one or more segments 'f,<index>', 'p' or 'o', joined by single '.'.
C15_PathGrammar ==
    (ResolvedHandle /\ resolved.out.kind = "ref")
        => LET segs == Split(resolved.out.ref, ".")
           IN  \A i \in 1 .. Len(segs) : IsSegment(segs[i])

\* The number of hops of a reference: each hop writes one of 'f', 'p', 'o'.
Hops(ref) == Cardinality({i \in 1 .. Len(ref) : ref[i] \in {"f", "p", "o"}})

\* C16: no path serializeWindowReference returns has more hops than the
\* maximum depth, 4, however deep the target is in a chain of frames.
C16_PathLengthBounded ==
    (ResolvedHandle /\ resolved.out.kind = "ref")
        => Hops(resolved.out.ref) <= MaxDepth

\* C17: a call of the hook with (m, o) calls the callbacks a native event
\* with data m and origin o calls, with the same data and origin, and raises
\* when and only when the native event's dispatch does.
C17_HookAsNative ==
    received.kind = "hook"
        => LET n == dispatch(listeners, NativeEvent(received.data, received.origin), 1)
           IN  /\ received.calls = n.calls
               /\ received.raised = n.raised

\* The last event was dispatched to the handlers.
Dispatched ==
    \/ received.kind \in {"native", "trigger"}
    \/ received.kind = "hook" /\ received.ev # NoEv

\* The callback of the first entry was called.
FirstCalled == \E k \in 1 .. Len(received.calls) : received.calls[k].idx = 1

\* The origin the handler reports to the callback: the 'origin' argument when
\* there is one, the event's own otherwise.
Reported(ev) == IF Falsy(ev.argOrigin) THEN ev.evOrigin ELSE ev.argOrigin

TokenOf(id) == FragmentFields(iframes[id])[1]

\* C19: cacheBuster grows by one with every call that creates a frame, and
\* no two frames a page has created have the same token, nor the same URL,
\* whatever the clock gave at the two calls.
C19_TokensDiffer ==
    /\ DOMAIN iframes = 1 .. cacheBuster - 1
    /\ \A i, j \in DOMAIN iframes :
          i # j => (TokenOf(i) # TokenOf(j) /\ iframes[i] # iframes[j])

\* The number of transports the last call used: the native call that
\* returned, the call of the hook, the proxy frame.
Transports ==
    (IF last.native.called /\ last.native.ok THEN 1 ELSE 0)
    + (IF last.hookCalls # <<>> THEN 1 ELSE 0)
    + (IF last.frame # Null THEN 1 ELSE 0)

\* C20: a call of $.postMessage uses at most one transport: when it has
\* called the hook, also when the hook or a callback raised, it creates no
\* proxy frame that delivers the message again.
C20_OneTransport ==
    last.called
        => /\ Transports <= 1
           /\ last.hookCalls # <<>>
                => (last.frame = Null /\ DOMAIN iframes \cup loaded = {})

====
